---- MODULE Spec2Model ----
(***************************************************************************)
(* The pipeline state machine of src/main.py (YouTubeShortsAutomation and  *)
(* the command dispatch of main()).  Every command line invocation is one  *)
(* process: it loads tracking.json, runs one command and exits.  The       *)
(* external collaborators (scraper, downloader, splitter, editor/ffmpeg,   *)
(* uploader) are the environment: their results are chosen with \E.        *)
(*                                                                         *)
(* The store metadata channel_url / last_scrape and the record fields      *)
(* title / duration / url are written once and never read by any stage;    *)
(* they are left out of the record.                                        *)
(*                                                                         *)
(* The composition planner of src/modules/editor.py (the two filter        *)
(* builders of VideoEditor) is a pure function of the canvas, the source   *)
(* dimensions and the configured fraction; EditorSpec applies it to every  *)
(* input of a bounded range.                                               *)
(***************************************************************************)
EXTENDS Integers, Sequences, FiniteSets, TLC

\* Bounds of the model.
MaxVideos == 2          \* videos the channel ever publishes (ids 1..MaxVideos, larger = newer)
MaxRuns == 2            \* command line invocations (processes started) per behaviour
MaxStamps == 1          \* scheduled runs that read a time of their own off the clock

\* config['video_settings']['max_segments_per_video']
max_segments == 3

None == <<>>            \* Python None / absent key; Some(x) is a present value
Some(x) == <<x>>

VARIABLES
    pc,             \* position of the running process ("idle": no process running)
    cmd,            \* the command the running process executes
    tracking,       \* self.tracking['videos']: insertion-ordered sequence of records
    disk,           \* the 'videos' mapping of the last complete write of tracking.json
    intact,         \* tracking.json holds that mapping (FALSE: a truncated document)
    channel,        \* number of videos on the channel (ids 1..channel)
    clock,          \* logical time read by datetime.now(): the number of processes started
    files,          \* ids v for which downloads/<v>.mp4 exists
    edited,         \* edited[v]: part numbers i for which <v>_part<i>_edited.mp4 exists
    video_id,       \* local: the record the current stage works on (None when none)
    segments,       \* local: the (path, part_num, title) list, as part numbers
    i,              \* local: loop index of upload_segments
    uploaded_ids,   \* local of upload_segments
    failed,         \* local of upload_segments
    scan,           \* local of main(): position of the --upload loop over the records
    selected,       \* history: what the selection of download_next_video picked
    start,          \* history: the store as loaded when the process started
    calls,          \* history: collaborator calls made by the running process
    cut,            \* history: what the splitter and the transcoder did in process_video
    outcomes,       \* history: what the Uploader answered, call by call, in this upload_segments
    delays,         \* history: time.sleep calls in the current upload_segments call
    editor,         \* the composition VideoEditor.add_overlays has built (mode "none": no call)
    produced        \* history: produced[v] is the list the last process_video of v returned

vars == <<pc, cmd, tracking, disk, intact, channel, clock, files, edited,
          video_id, segments, i, uploaded_ids, failed, scan, selected,
          start, calls, cut, outcomes, delays, editor, produced>>

VideoIds == 1..MaxVideos
NoCalls == [scrape |-> 0, download |-> 0, split |-> 0, transcode |-> 0, upload |-> 0]
NoCut == [n |-> 0, tried |-> {}, ok |-> {}]
NoPlan == [mode |-> "none", in_w |-> 0, in_h |-> 0, out_w |-> 0, out_h |-> 0, top_pct |-> 0,
           top_h |-> 0, bottom_h |-> 0, branch |-> "none", filter |-> <<>>, overlay_in |-> "", map |-> ""]

----------------------------------------------------------------------------
\* Helpers on the ordered mapping.

Ids(t) == {t[k].id : k \in 1..Len(t)}

Index(t, v) == CHOOSE k \in 1..Len(t) : t[k].id = v

Rec(t, v) == t[Index(t, v)]

\* The ascending sequence of the elements of a set of integers.
RECURSIVE Ascending(_)
Ascending(S) ==
    IF S = {} THEN <<>>
    ELSE LET m == CHOOSE x \in S : \A y \in S : x <= y
         IN <<m>> \o Ascending(S \ {m})

----------------------------------------------------------------------------
\* The scraper: newest first, [] on any error.

\* What the page shows for video v at time t: older videos have gathered more views.
Item(v, t) == [id |-> v, views |-> 10 * (MaxVideos + 1 - v) + t,
               published |-> IF t <= 1 THEN "1 day ago" ELSE "2 days ago"]

\* The m newest of the channel's n videos.

get_channel_videos(n, m, t) == [k \in 1..m |-> Item(n + 1 - k, t)]

NewRecord(video) ==
    [id |-> video.id, views |-> video.views, published |-> video.published,
     status |-> "pending", parts_uploaded |-> <<>>, youtube_video_ids |-> <<>>,
     downloaded_at |-> None, last_upload |-> None, total_parts |-> None]

RefreshRecord(r, video) ==
    [r EXCEPT !.views = video.views, !.published = video.published]

\* (mutation of MergeVideo: a known id is inserted afresh, as a new one is)
MergeVideo_reinsert(t, video) ==
    IF video.id \notin Ids(t)
    THEN Append(t, NewRecord(video))
    ELSE [t EXCEPT ![Index(t, video.id)] = NewRecord(video)]

MergeVideo(t, video) ==
    IF video.id \notin Ids(t)
    THEN Append(t, NewRecord(video))
    ELSE [t EXCEPT ![Index(t, video.id)] = RefreshRecord(t[Index(t, video.id)], video)]

RECURSIVE MergeVideos(_, _)
MergeVideos(t, videos) ==
    IF videos = <<>> THEN t
    ELSE MergeVideos(MergeVideo(t, Head(videos)), Tail(videos))

----------------------------------------------------------------------------
\* Selection of download_next_video.

\* (mutation of NotCompleted: only the records still pending are candidates)
NotCompleted_pending(r) == r.status = "pending"

NotCompleted(r) == r.status # "completed"

\* (mutation of Pending: a partial record counts as done)
Pending_done(t) == SelectSeq(t, LAMBDA r : r.status \notin {"completed", "partial"})

Pending(t) == SelectSeq(t, NotCompleted)

\* (mutation of SelectNext: the first record, whatever its status)
SelectNext_first(t) == IF t = <<>> THEN None ELSE Some(Head(t).id)

SelectNext(t) == IF Pending(t) = <<>> THEN None ELSE Some(Head(Pending(t)).id)

----------------------------------------------------------------------------
Init ==
    /\ pc = "idle"
    /\ cmd = "none"
    /\ tracking = <<>>
    /\ disk = <<>>
    /\ intact = TRUE
    /\ channel = 1
    /\ clock = 0
    /\ files = {}
    /\ edited = [v \in VideoIds |-> {}]
    /\ video_id = None
    /\ segments = <<>>
    /\ i = 0
    /\ uploaded_ids = <<>>
    /\ failed = <<>>
    /\ scan = 0
    /\ selected = None
    /\ start = <<>>
    /\ calls = NoCalls
    /\ cut = NoCut
    /\ outcomes = <<>>
    /\ delays = 0
    /\ editor = NoPlan
    /\ produced = [v \in VideoIds |-> <<>>]

----------------------------------------------------------------------------
\* Process start: YouTubeShortsAutomation() loads the persisted store.  json.load
\* raises on a truncated document: no command gets past the constructor then.

Load(c) ==
    /\ pc = "idle"
    /\ intact
    /\ cmd' = c
    /\ tracking' = disk
    /\ start' = disk
    /\ calls' = NoCalls
    /\ cut' = NoCut
    /\ clock < MaxRuns
    /\ clock' = clock + 1
    /\ UNCHANGED <<produced, editor, disk, intact, channel, files, edited, segments, i,
                   uploaded_ids, failed, selected, outcomes, delays>>

\* python main.py --full
StartFull ==
    /\ Load("full")
    /\ pc' = "scrape"
    /\ UNCHANGED <<video_id, scan>>

\* python main.py --scrape
StartScrape ==
    /\ Load("scrape")
    /\ pc' = "scrape"
    /\ UNCHANGED <<video_id, scan>>

\* python main.py --download <v>
StartDownload ==
    /\ Load("download")
    /\ \E v \in Ids(disk) :
          /\ video_id' = Some(v)
          /\ pc' = "fetch"
    /\ UNCHANGED scan

\* python main.py --process <v>
StartProcess ==
    /\ Load("process")
    /\ \E v \in Ids(disk) \cap files :
          /\ video_id' = Some(v)
          /\ pc' = "process"
    /\ UNCHANGED scan

\* python main.py --upload
StartUpload ==
    /\ Load("upload")
    /\ pc' = "scan"
    /\ scan' = 1
    /\ UNCHANGED video_id

----------------------------------------------------------------------------
\* _save_tracking, run to its end: the file holds the in-memory mapping t.

\* (mutation of save_tracking: nothing is written, the file keeps what it held)
save_tracking_skipped(t) == disk

save_tracking(t) == t

----------------------------------------------------------------------------
\* scrape_channel: merge the scraper's list and save.

scrape_channel ==
    /\ pc = "scrape"
    /\ \E m \in 0..channel :
          tracking' = MergeVideos(tracking, get_channel_videos(channel, m, clock))
    /\ disk' = save_tracking(tracking')
    /\ calls' = [calls EXCEPT !.scrape = @ + 1]
    /\ pc' = IF cmd = "full" THEN "download" ELSE "done"
    /\ UNCHANGED <<produced, editor, intact, cut, cmd, channel, clock, files, edited, video_id, segments, i,
                   uploaded_ids, failed, scan, selected, start, outcomes, delays>>

\* download_next_video, nothing to select: returns (None, None) before any call.
download_none ==
    /\ pc = "download"
    /\ SelectNext(tracking) = None
    /\ selected' = None
    /\ video_id' = None
    /\ pc' = "done"
    /\ UNCHANGED <<produced, editor, intact, cut, cmd, tracking, disk, channel, clock, files, edited, segments,
                   i, uploaded_ids, failed, scan, start, calls, outcomes, delays>>

\* (mutation of Downloaded: the download time is not stamped)
Downloaded_unstamped(t, v, now) == [t EXCEPT ![Index(t, v)].status = "downloaded"]

Downloaded(t, v, now) ==
    [t EXCEPT ![Index(t, v)].status = "downloaded",
              ![Index(t, v)].downloaded_at = Some(now)]

\* download_next_video on the selected record; video_path is truthy or not.
download_next_video ==
    /\ pc = "download"
    /\ SelectNext(tracking) # None
    /\ LET v == SelectNext(tracking)[1] IN
       /\ selected' = Some(v)
       /\ calls' = [calls EXCEPT !.download = @ + 1]
       /\ \E video_path \in BOOLEAN :
             IF video_path
             THEN /\ tracking' = Downloaded(tracking, v, clock)
                  /\ disk' = save_tracking(tracking')
                  /\ files' = files \cup {v}
                  /\ video_id' = Some(v)
                  /\ pc' = "process"
             ELSE /\ video_id' = None
                  /\ pc' = "done"
                  /\ UNCHANGED <<tracking, disk, files>>
    /\ UNCHANGED <<produced, editor, intact, cut, cmd, channel, clock, edited, segments, i, uploaded_ids,
                   failed, scan, start, outcomes, delays>>

\* download_video raises: the call (main.py:129) is in no try block, the exception
\* leaves download_next_video and run_full_automation.
download_raises ==
    /\ pc = "download"
    /\ SelectNext(tracking) # None
    /\ selected' = Some(SelectNext(tracking)[1])
    /\ calls' = [calls EXCEPT !.download = @ + 1]
    /\ video_id' = None
    /\ pc' = "raised"
    /\ UNCHANGED <<produced, editor, intact, cut, cmd, tracking, disk, channel, clock, files, edited,
                   segments, i, uploaded_ids, failed, scan, start, outcomes, delays>>

\* main(): --download calls the downloader only; the store is not touched.
download_only ==
    /\ pc = "fetch"
    /\ calls' = [calls EXCEPT !.download = @ + 1]
    /\ \E video_path \in BOOLEAN :
          files' = IF video_path THEN files \cup {video_id[1]} ELSE files
    /\ pc' = "done"
    /\ UNCHANGED <<produced, editor, intact, cut, cmd, tracking, disk, channel, clock, edited, video_id,
                   segments, i, uploaded_ids, failed, scan, selected, start, outcomes,
                   delays>>

----------------------------------------------------------------------------
\* process_video: split, cap, transcode each retained segment, record, save.

\* (mutation of Retained: the list is not cut)
Retained_all(n) == 1..n

\* segments[:max_segments] of a split into n pieces, as part numbers 1..k
Retained(n) == 1..(IF n > max_segments THEN max_segments ELSE n)

\* (mutation of Processed: every record is marked processed)
Processed_all(t, v, edited_segments) ==
    [k \in 1..Len(t) |-> [t[k] EXCEPT !.status = "processed",
                                      !.total_parts = Some(Len(edited_segments))]]

Processed(t, v, edited_segments) ==
    [t EXCEPT ![Index(t, v)].status = "processed",
              ![Index(t, v)].total_parts = Some(Len(edited_segments))]

\* add_overlays writes <segment>_edited.mp4; a failed transcode may leave its
\* (truncated or stale) output file behind.  Only the files numbered up to the
\* number of successes are ever looked at again (main(), --upload).
process_video ==
    /\ pc = "process"
    /\ \E n \in 0..(max_segments + 1) :
       \E ok \in SUBSET Retained(n) :
       \E left \in SUBSET ((Retained(n) \ ok) \cap 1..Cardinality(ok)) :
          LET v == video_id[1]
              edited_segments == Ascending(ok)
          IN /\ calls' = [calls EXCEPT !.split = @ + 1,
                                       !.transcode = @ + Cardinality(Retained(n))]
             /\ cut' = [n |-> n, tried |-> Retained(n), ok |-> ok]
             /\ edited' = [edited EXCEPT ![v] = ok \cup left]
             /\ tracking' = Processed(tracking, v, edited_segments)
             /\ disk' = save_tracking(tracking')
             /\ segments' = edited_segments
             /\ produced' = [produced EXCEPT ![v] = edited_segments]
    /\ pc' = IF cmd = "full" THEN "upload" ELSE "done"
    /\ UNCHANGED <<editor, intact, cmd, channel, clock, files, video_id, i, uploaded_ids,
                   failed, scan, selected, start, outcomes, delays>>

\* split_video raises: the call (main.py:154) is in no try block, the exception
\* leaves process_video and its caller.  (add_overlays catches what it raises.)
split_raises ==
    /\ pc = "process"
    /\ calls' = [calls EXCEPT !.split = @ + 1]
    /\ pc' = "raised"
    /\ UNCHANGED <<produced, editor, intact, cut, cmd, tracking, disk, channel, clock, files, edited,
                   video_id, segments, i, uploaded_ids, failed, scan, selected, start,
                   outcomes, delays>>

----------------------------------------------------------------------------
\* upload_segments(video_id, segments)

\* entry: the upload list is prepared, uploaded_ids = [], failed = []
upload_segments ==
    /\ pc = "upload"
    /\ i' = 0
    /\ uploaded_ids' = <<>>
    /\ failed' = <<>>
    /\ outcomes' = <<>>
    /\ delays' = 0
    /\ pc' = "upload_loop"
    /\ UNCHANGED <<produced, editor, intact, cut, cmd, tracking, disk, channel, clock, files, edited,
                   video_id, segments, scan, selected, start, calls>>

\* The external id the platform returns for the upload it accepts of part part_num of
\* video v in the process started at time now: fresh for every accepted upload.
YtId(now, v, part_num) == <<now, v, part_num>>

\* Does the loop body sleep after the upload of index k (0-based) of n?
Sleeps(out, k, n) == out # "raise" /\ k < n - 1

\* (mutation of LoopDone: the loop is left at the first failure)
LoopDone_break(k, segs) == k = Len(segs) \/ failed # <<>>

\* for i, video_info in enumerate(videos_to_upload): exhausted after index k - 1
LoopDone(k, segs) == k = Len(segs)

\* one iteration of the loop: upload_short returns an id, returns nothing, or raises
upload_short ==
    /\ pc = "upload_loop"
    /\ ~LoopDone(i, segments)
    /\ LET v == video_id[1]
           part_num == segments[i + 1]
       IN \E out \in {"ok", "fail", "raise"} :
             /\ outcomes' = Append(outcomes,
                    [part |-> part_num, res |-> out,
                     id |-> IF out = "ok"
                            THEN Some(YtId(clock, v, part_num)) ELSE None])
             /\ calls' = [calls EXCEPT !.upload = @ + 1]
             /\ IF out = "ok"
                THEN /\ uploaded_ids' = Append(uploaded_ids, YtId(clock, v, part_num))
                     /\ UNCHANGED failed
                ELSE /\ failed' = Append(failed, part_num)
                     /\ UNCHANGED uploaded_ids
             /\ delays' = IF Sleeps(out, i, Len(segments)) THEN delays + 1 ELSE delays
    /\ i' = i + 1
    /\ UNCHANGED <<produced, editor, intact, cut, pc, cmd, tracking, disk, channel, clock, files, edited, video_id,
                   segments, scan, selected, start>>

\* (mutation of UploadStatus: every call ends in partial)
UploadStatus_partial(failed_parts) == "partial"

\* (mutation of UploadStatus: the failures are not looked at)
UploadStatus_always(failed_parts) == "completed"

UploadStatus(failed_parts) == IF Len(failed_parts) = 0 THEN "completed" ELSE "partial"

\* (mutation of Uploaded: the parts are numbered over all the attempts)
Uploaded_attempts(t, v, ids, failed_parts, now) ==
    [t EXCEPT ![Index(t, v)].youtube_video_ids = ids,
              ![Index(t, v)].parts_uploaded =
                    [k \in 1..(Len(ids) + Len(failed_parts)) |-> k],
              ![Index(t, v)].last_upload = Some(now),
              ![Index(t, v)].status = UploadStatus(failed_parts)]

Uploaded(t, v, ids, failed_parts, now) ==
    [t EXCEPT ![Index(t, v)].youtube_video_ids = ids,
              ![Index(t, v)].parts_uploaded = [k \in 1..Len(ids) |-> k],
              ![Index(t, v)].last_upload = Some(now),
              ![Index(t, v)].status = UploadStatus(failed_parts)]

\* after the loop: update the record, save, return
upload_finish ==
    /\ pc = "upload_loop"
    /\ LoopDone(i, segments)
    /\ tracking' = Uploaded(tracking, video_id[1], uploaded_ids, failed, clock)
    /\ disk' = save_tracking(tracking')
    /\ IF cmd = "full"
       THEN pc' = "done" /\ UNCHANGED scan
       ELSE pc' = "scan" /\ scan' = scan + 1
    /\ UNCHANGED <<produced, editor, intact, cut, cmd, channel, clock, files, edited, video_id, segments, i,
                   uploaded_ids, failed, selected, start, calls, outcomes, delays>>

----------------------------------------------------------------------------
\* main(), --upload: every record with status processed, segments rebuilt from the files.

\* [(seg_path, i, title) for i in 1..total_parts if the file exists]
FoundSegments(r, present) ==
    Ascending({k \in 1..(IF r.total_parts = None THEN 0 ELSE r.total_parts[1]) :
                  k \in present})

upload_pending_take ==
    /\ pc = "scan"
    /\ scan <= Len(tracking)
    /\ tracking[scan].status = "processed"
    /\ FoundSegments(tracking[scan], edited[tracking[scan].id]) # <<>>
    /\ video_id' = Some(tracking[scan].id)
    /\ segments' = FoundSegments(tracking[scan], edited[tracking[scan].id])
    /\ pc' = "upload"
    /\ UNCHANGED <<produced, editor, intact, cut, cmd, tracking, disk, channel, clock, files, edited, i,
                   uploaded_ids, failed, scan, selected, start, calls, outcomes, delays>>

upload_pending_skip ==
    /\ pc = "scan"
    /\ scan <= Len(tracking)
    /\ \/ tracking[scan].status # "processed"
       \/ FoundSegments(tracking[scan], edited[tracking[scan].id]) = <<>>
    /\ scan' = scan + 1
    /\ UNCHANGED <<produced, editor, intact, cut, pc, cmd, tracking, disk, channel, clock, files, edited,
                   video_id, segments, i, uploaded_ids, failed, selected, start, calls,
                   outcomes, delays>>

upload_pending_end ==
    /\ pc = "scan"
    /\ scan > Len(tracking)
    /\ pc' = "done"
    /\ UNCHANGED <<produced, editor, intact, cut, cmd, tracking, disk, channel, clock, files, edited,
                   video_id, segments, i, uploaded_ids, failed, scan, selected, start,
                   calls, outcomes, delays>>

----------------------------------------------------------------------------
\* The process ends; its memory is gone and the next one loads the file again.

Gone ==
    /\ pc' = "idle"
    /\ cmd' = "none"
    /\ tracking' = disk
    /\ video_id' = None
    /\ segments' = <<>>
    /\ i' = 0
    /\ uploaded_ids' = <<>>
    /\ failed' = <<>>
    /\ scan' = 0
    /\ selected' = None
    /\ start' = <<>>
    /\ calls' = NoCalls
    /\ cut' = NoCut
    /\ outcomes' = <<>>
    /\ delays' = 0
    /\ UNCHANGED <<produced, editor, disk, channel, clock>>

Ended ==
    /\ Gone
    /\ UNCHANGED <<produced, editor, intact, files, edited>>

\* the command returns
Exit ==
    /\ pc = "done"
    /\ Ended

\* the process is killed (or dies of the exception that left the command, pc = "raised")
\* between two steps
Kill ==
    /\ pc \notin {"idle", "done"}
    /\ Ended

\* _save_tracking is cut short: open(path, 'w') has truncated tracking.json, and the
\* process is killed, or json.dump or the write raises, before the document is complete.
\* The stage's own files are there: the save is the last thing a stage does.
save_torn ==
    /\ intact
    /\ \/ /\ pc = "scrape"
          /\ UNCHANGED <<files, edited>>
       \/ /\ pc = "download"
          /\ SelectNext(tracking) # None
          /\ files' = files \cup {SelectNext(tracking)[1]}
          /\ UNCHANGED edited
       \/ /\ pc = "process"
          /\ \E written \in SUBSET Retained(max_segments) :
                edited' = [edited EXCEPT ![video_id[1]] = written]
          /\ UNCHANGED files
       \/ /\ pc = "upload_loop"
          /\ LoopDone(i, segments)
          /\ UNCHANGED <<files, edited>>
    /\ intact' = FALSE
    /\ Gone

\* the channel's owner publishes a video
NewVideo ==
    /\ pc = "idle"
    /\ channel < MaxVideos
    /\ channel' = channel + 1
    /\ UNCHANGED <<produced, editor, intact, cut, pc, cmd, tracking, disk, clock, files, edited, video_id,
                   segments, i, uploaded_ids, failed, scan, selected, start, calls,
                   outcomes, delays>>

Next ==
    \/ StartFull
    \/ StartScrape
    \/ StartDownload
    \/ StartProcess
    \/ StartUpload
    \/ scrape_channel
    \/ download_none
    \/ download_next_video
    \/ download_raises
    \/ download_only
    \/ process_video
    \/ split_raises
    \/ upload_segments
    \/ upload_short
    \/ upload_finish
    \/ upload_pending_take
    \/ upload_pending_skip
    \/ upload_pending_end
    \/ Exit
    \/ Kill
    \/ save_torn
    \/ NewVideo

Spec == Init /\ [][Next]_vars

----------------------------------------------------------------------------
\* Repeated full cycles: a scheduler runs python main.py --full again and again, each
\* run to its return.  The number of runs is not bounded; the time stamps are: the
\* clock stands still once it has reached MaxStamps.

StartFullAgain ==
    /\ pc = "idle"
    /\ intact
    /\ cmd' = "full"
    /\ tracking' = disk
    /\ start' = disk
    /\ calls' = NoCalls
    /\ cut' = NoCut
    /\ clock' = IF clock < MaxStamps THEN clock + 1 ELSE clock
    /\ pc' = "scrape"
    /\ UNCHANGED <<produced, editor, disk, intact, channel, files, edited, video_id, segments, i,
                   uploaded_ids, failed, scan, selected, outcomes, delays>>

CycleNext ==
    \/ StartFullAgain
    \/ scrape_channel
    \/ download_none
    \/ download_next_video
    \/ process_video
    \/ upload_segments
    \/ upload_short
    \/ upload_finish
    \/ Exit
    \/ NewVideo

\* the scheduler never stops and a started cycle runs on
CycleSpec == Init /\ [][CycleNext]_vars /\ WF_vars(CycleNext)

----------------------------------------------------------------------------
\* Vocabulary of the properties.

\* scrape_channel has returned and nothing else has touched the store since
ScrapeReturned == pc = "download" \/ (pc = "done" /\ cmd = "scrape")

\* upload_segments(video_id, segments) has returned and nothing has touched the store since
UploadReturned == video_id # None /\ pc \in {"scan", "done"} /\ cmd \in {"full", "upload"}

AllCompleted(t) == \A k \in 1..Len(t) : t[k].status = "completed"

\* r and q differ at most in views and published
SameButViews(r, q) == [r EXCEPT !.views = q.views, !.published = q.published] = q

\* status, uploaded ids and timestamps of r are those of q
SameProgress(r, q) ==
    /\ r.status = q.status
    /\ r.youtube_video_ids = q.youtube_video_ids
    /\ r.parts_uploaded = q.parts_uploaded
    /\ r.downloaded_at = q.downloaded_at
    /\ r.last_upload = q.last_upload

Succeeded(outs) == SelectSeq(outs, LAMBDA o : o.res = "ok")

ReturnedIds(outs) == [k \in 1..Len(Succeeded(outs)) |-> Succeeded(outs)[k].id[1]]

NoHeavyCall ==
    calls.download = 0 /\ calls.split = 0 /\ calls.transcode = 0 /\ calls.upload = 0

----------------------------------------------------------------------------
\* C1: after every discovery merge, every record that was in the store before it is at
\* the same place with the same status, youtube_video_ids, parts_uploaded, downloaded_at
\* and last_upload; it differs from what it was at most in views and published.
C1_MergeFrame ==
    ScrapeReturned =>
        /\ Len(start) <= Len(tracking)
        /\ \A k \in 1..Len(start) :
              /\ tracking[k].id = start[k].id
              /\ SameProgress(tracking[k], start[k])
              /\ SameButViews(tracking[k], start[k])

C1_Witness ==
    /\ ScrapeReturned
    /\ \E k \in 1..Len(start) :
          /\ start[k].status = "partial"
          /\ start[k].youtube_video_ids # <<>>
          /\ tracking[k].views # start[k].views

\* C2: in every reachable store, the selection of download_next_video picks the first
\* record in insertion order whose status is not completed, never a completed one, and
\* picks none exactly when every record is completed; a full cycle in which it picked
\* none has called no collaborator after the scraper.
C2_SelectFirstNotCompleted ==
    /\ (SelectNext(tracking) = None) <=> AllCompleted(tracking)
    /\ SelectNext(tracking) # None =>
          \E k \in 1..Len(tracking) :
             /\ tracking[k].id = SelectNext(tracking)[1]
             /\ tracking[k].status # "completed"
             /\ \A j \in 1..(k - 1) : tracking[j].status = "completed"
    /\ (cmd = "full" /\ pc = "done" /\ selected = None) =>
          AllCompleted(tracking) /\ NoHeavyCall
    /\ (cmd = "full" /\ pc = "done" /\ calls.download = 0) => selected = None

C2_Witness ==
    /\ pc = "download"
    /\ Len(tracking) = 2
    /\ tracking[1].status = "completed"
    /\ tracking[2].status = "pending"
    /\ SelectNext(tracking) = Some(tracking[2].id)

\* C3: when upload_segments has returned, the record is completed iff no upload of the
\* call failed (returned nothing or raised), and partial iff at least one did.
C3_StatusAfterUpload ==
    UploadReturned =>
        LET r == Rec(tracking, video_id[1])
            nofail == \A k \in 1..Len(outcomes) : outcomes[k].res = "ok"
        IN /\ r.status = "completed" <=> nofail
           /\ r.status = "partial" <=> ~nofail

C3_Witness ==
    /\ UploadReturned
    /\ Len(outcomes) = 3
    /\ outcomes[1].res = "ok" /\ outcomes[2].res = "raise" /\ outcomes[3].res = "ok"
    /\ Rec(tracking, video_id[1]).status = "partial"

\* C4: when upload_segments has returned, youtube_video_ids is the list of the ids the
\* successful uploads of this call returned, in upload order, and parts_uploaded is
\* 1..N for N the number of successful uploads, whatever parts they were.
C4_StoredIds ==
    UploadReturned =>
        LET r == Rec(tracking, video_id[1])
            N == Len(Succeeded(outcomes))
        IN /\ r.youtube_video_ids = ReturnedIds(outcomes)
           /\ r.parts_uploaded = [k \in 1..N |-> k]
           /\ (Len(outcomes) = 3 /\ outcomes[1].res = "ok" /\ outcomes[2].res # "ok"
                 /\ outcomes[3].res = "ok") =>
                 Len(r.youtube_video_ids) = 2 /\ Len(r.parts_uploaded) = 2

C4_Witness ==
    /\ UploadReturned
    /\ segments = <<1, 2, 3>>
    /\ outcomes[1].res = "ok" /\ outcomes[2].res = "fail" /\ outcomes[3].res = "ok"
    /\ Rec(tracking, video_id[1]).parts_uploaded = <<1, 2>>
    /\ Len(Rec(tracking, video_id[1]).youtube_video_ids) = 2

\* C5: when upload_segments has returned from a call over n >= 1 segments, it has
\* slept exactly n - 1 times, whatever the uploads answered.
C5_DelayCount ==
    (UploadReturned /\ Len(outcomes) >= 1) => delays = Len(outcomes) - 1

\* C6: a full cycle that started on a store of completed records only and discovered no
\* new identifier calls neither the downloader, the splitter, the transcoder nor the
\* uploader, and leaves status, uploaded ids and timestamps of every record as they were.
C6_CompletedCycleIsNoOp ==
    (cmd = "full" /\ AllCompleted(start) /\ Ids(tracking) = Ids(start)) =>
        /\ NoHeavyCall
        /\ Len(tracking) = Len(start)
        /\ \A k \in 1..Len(start) :
              tracking[k].id = start[k].id /\ SameProgress(tracking[k], start[k])

C6_Witness ==
    /\ cmd = "full"
    /\ pc = "done"
    /\ calls.scrape = 1
    /\ Len(start) >= 1
    /\ AllCompleted(start)
    /\ Ids(tracking) = Ids(start)
    /\ \E k \in 1..Len(start) : start[k].youtube_video_ids # <<>>

\* C7: the downloader is never called by a full cycle for a record whose status was
\* downloaded when the cycle selected it.
C7_NoDownloadOfDownloaded ==
    (cmd = "full" /\ calls.download >= 1 /\ selected # None /\ selected[1] \in Ids(start)) =>
        Rec(start, selected[1]).status # "downloaded"

Rank(status) ==
    CASE status = "pending" -> 0
      [] status = "downloaded" -> 1
      [] status = "processed" -> 2
      [] status = "partial" -> 3
      [] status = "completed" -> 3

\* C8: no step moves the status of a stored record backwards in the order
\* pending < downloaded < processed < completed (partial reached from processed like
\* completed), except that a partial record may leave partial for its retry; a completed
\* record stays completed.
C8_StatusMovesForward ==
    [][\A k \in 1..Len(disk) :
          /\ disk[k].status = "completed" => disk'[k].status = "completed"
          /\ disk[k].status \notin {"partial", "completed"} =>
                Rank(disk'[k].status) >= Rank(disk[k].status)]_vars

\* C9: every stored record with status completed has as many uploaded ids as its
\* total_parts says.
C9_CompletedHasAllParts ==
    \A k \in 1..Len(disk) :
        disk[k].status = "completed" =>
            /\ disk[k].total_parts # None
            /\ Len(disk[k].youtube_video_ids) = disk[k].total_parts[1]

IsPrefix(a, b) == Len(a) <= Len(b) /\ \A k \in 1..Len(a) : a[k] = b[k]

\* C10: for every stored record and every step, the youtube_video_ids before the
\* step is a prefix of the youtube_video_ids after it.
C10_IdsAppendOnly ==
    [][\A k \in 1..Len(disk) :
          IsPrefix(disk[k].youtube_video_ids, disk'[k].youtube_video_ids)]_vars

----------------------------------------------------------------------------
\* C11: tracking.json holds a complete mapping in every state: a save that fails or is
\* cut short leaves the previous mapping in the file, never an empty or partly written
\* document, so that a later load returns the old or the new mapping.
C11_SaveAtomic == intact

\* the process running a full cycle is killed between two steps (the file is whole)
KilledInFull == cmd = "full" /\ pc \notin {"idle", "done"} /\ pc' = "idle" /\ intact'

\* C12: when a full cycle is killed, the store it leaves on disk has no record newly
\* completed, changes no list of upload ids except to the ids the uploads of this
\* run returned, and lists under the record every id an upload of this run returned
\* before the kill.
C12_CrashConsistent ==
    [][KilledInFull =>
          /\ \A k \in 1..Len(disk') :
                disk'[k].status = "completed" =>
                    k <= Len(start) /\ start[k].status = "completed"
          /\ \A k \in 1..Len(start) :
                \/ disk'[k].youtube_video_ids = start[k].youtube_video_ids
                \/ disk'[k].youtube_video_ids = ReturnedIds(outcomes)
          /\ \A k \in 1..Len(outcomes) :
                outcomes[k].res = "ok" =>
                    \E j \in 1..Len(Rec(disk', video_id[1]).youtube_video_ids) :
                       Rec(disk', video_id[1]).youtube_video_ids[j] = outcomes[k].id[1]]_vars

\* a stage of the orchestrator has returned to its caller
StageReturned == pc \in {"download", "process", "upload", "scan", "done"}

\* C13: whenever scrape_channel, download_next_video, process_video, upload_segments or
\* the full cycle has returned, the mapping in tracking.json is the in-memory mapping.
C13_PersistedOnReturn == StageReturned => (intact /\ disk = tracking)

C13_Witness ==
    /\ cmd = "full"
    /\ pc = "done"
    /\ selected # None
    /\ video_id = None
    /\ calls.download = 1
    /\ tracking # start
    /\ disk = tracking

\* C14: no exception of a collaborator leaves the orchestrator: whatever the scraper,
\* the downloader, the splitter, the transcoder and the uploader answer or raise, a
\* full cycle goes on to its return.
C14_NoEscape == cmd = "full" => pc # "raised"

\* download_next_video has selected a record and the Downloader answers in this step
DownloadAnswered == pc = "download" /\ SelectNext(tracking) # None /\ pc' # "idle"

\* the selected record of t is r
SelectedIs(t, r) == Rec(t, SelectNext(tracking)[1]) = r

\* the Downloader gave a path: downloaded, stamped, saved, nothing else touched
DownloadSucceeded ==
    (DownloadAnswered /\ pc' = "process") =>
        /\ video_id' = SelectNext(tracking)
        /\ SelectedIs(tracking', [Rec(tracking, SelectNext(tracking)[1]) EXCEPT
                                     !.status = "downloaded", !.downloaded_at = Some(clock)])
        /\ \A k \in 1..Len(tracking) :
              tracking[k].id # SelectNext(tracking)[1] => tracking'[k] = tracking[k]
        /\ Len(tracking') = Len(tracking)
        /\ intact' /\ disk' = tracking'

\* the full cycle stops after a download that gave nothing
CycleStops ==
    (DownloadAnswered /\ cmd = "full" /\ pc' \in {"done", "raised"}) =>
        calls'.split = 0 /\ calls'.transcode = 0 /\ calls'.upload = 0

\* C15 (as stated): a Downloader that gives a path makes the selected record downloaded,
\* stamped and saved; one that gives none makes download_next_video return none with the
\* selected record's status pending and no field of any record changed, and the full
\* cycle calls neither the splitter, the transcoder nor the uploader.
C15_DownloadOutcome ==
    [][/\ DownloadSucceeded
       /\ (DownloadAnswered /\ pc' = "done") =>
             /\ video_id' = None
             /\ Rec(tracking', SelectNext(tracking)[1]).status = "pending"
             /\ tracking' = tracking /\ disk' = disk
       /\ CycleStops]_vars

\* C15 (amended): as above, but the status of the selected record is left as it was,
\* which is pending only for a record that was pending (a partial, downloaded or
\* processed record that is selected again keeps its status); the same holds, without
\* a return value, when the Downloader raises.
C15_DownloadOutcomeAmended ==
    [][/\ DownloadSucceeded
       /\ (DownloadAnswered /\ pc' = "done") => video_id' = None
       /\ (DownloadAnswered /\ pc' \in {"done", "raised"}) =>
             /\ Rec(tracking', SelectNext(tracking)[1]).status =
                   Rec(tracking, SelectNext(tracking)[1]).status
             /\ tracking' = tracking /\ disk' = disk /\ intact'
       /\ CycleStops]_vars

C15_Witness ==
    /\ cmd = "full"
    /\ pc = "done"
    /\ calls.download = 1
    /\ selected # None
    /\ video_id = None
    /\ Rec(tracking, selected[1]).status = "partial"
    /\ Rec(tracking, selected[1]).youtube_video_ids # <<>>

\* process_video has returned and nothing has touched the store since
ProcessReturned == (pc = "upload" /\ cmd = "full") \/ (pc = "done" /\ cmd = "process")

\* C16: when process_video has returned, the transcoder was called for the first
\* min(n, max_segments) of the n pieces of the splitter and for no other; the returned
\* list holds the positions of exactly the pieces whose transcode succeeded, in strictly
\* ascending order; the record is processed and its total_parts is the length of that
\* list, 0 when no transcode succeeded.
C16_ProcessResult ==
    ProcessReturned =>
        LET r == Rec(tracking, video_id[1])
            k == IF cut.n > max_segments THEN max_segments ELSE cut.n
        IN /\ cut.tried = 1..k
           /\ calls.transcode = k
           /\ calls.transcode <= max_segments
           /\ cut.ok \subseteq cut.tried
           /\ {segments[j] : j \in 1..Len(segments)} = cut.ok
           /\ \A j \in 1..(Len(segments) - 1) : segments[j] < segments[j + 1]
           /\ r.status = "processed"
           /\ r.total_parts = Some(Len(segments))
           /\ Len(segments) = Cardinality(cut.ok)
           /\ (cut.ok = {} => r.total_parts = Some(0))
           /\ disk = tracking

C16_Witness ==
    /\ ProcessReturned
    /\ cut.n = max_segments + 1
    /\ cut.ok = {1, 3}
    /\ segments = <<1, 3>>
    /\ Rec(disk, video_id[1]).total_parts = Some(2)

\* C17: when process_video has returned no segment to a full cycle, the cycle ends
\* without a call of the uploader and with the record still processed, total_parts 0.
C17_NothingToPublish ==
    (cmd = "full" /\ pc = "done" /\ video_id # None /\ segments = <<>>) =>
        /\ calls.upload = 0
        /\ Rec(tracking, video_id[1]).status = "processed"
        /\ Rec(tracking, video_id[1]).total_parts = Some(0)

\* the parts of the answers of kind ok (wanted = TRUE) or not ok, in call order
PartsOf(outs, wanted) ==
    LET sel == SelectSeq(outs, LAMBDA o : (o.res = "ok") = wanted)
    IN [k \in 1..Len(sel) |-> sel[k].part]

\* C18: upload_segments calls the uploader one segment at a time in list order: while
\* it runs, the calls made are those for the first i segments; when it has returned,
\* there is exactly one call per segment, whatever the earlier calls answered, the
\* successful list holds the ids of the calls that gave one and the failed list the
\* parts of the others, and the two lengths sum to the number of segments.
C18_OneUploadPerSegment ==
    /\ pc = "upload_loop" =>
          /\ Len(outcomes) = i /\ i <= Len(segments)
          /\ \A k \in 1..i : outcomes[k].part = segments[k]
    /\ UploadReturned =>
          /\ Len(outcomes) = Len(segments)
          /\ \A k \in 1..Len(segments) : outcomes[k].part = segments[k]
          /\ \A k \in 1..(Len(segments) - 1) : segments[k] < segments[k + 1]
          /\ uploaded_ids = ReturnedIds(outcomes)
          /\ failed = PartsOf(outcomes, FALSE)
          /\ Len(uploaded_ids) + Len(failed) = Len(segments)

C18_Witness ==
    /\ UploadReturned
    /\ segments = <<1, 2, 3>>
    /\ outcomes[1].res = "fail" /\ outcomes[2].res = "raise" /\ outcomes[3].res = "ok"
    /\ failed = <<1, 2>>
    /\ Len(uploaded_ids) = 1

\* upload_segments has returned and has left its record partial
ReturnedPartial == UploadReturned /\ Rec(tracking, video_id[1]).status = "partial"

\* C19 (as stated): every stored record with status partial has a list of uploaded ids
\* that is not empty and is shorter than the number of segments (at most total_parts)
\* that the upload_segments call that made it partial attempted.
C19_PartialIsSomeNotAll ==
    /\ \A k \in 1..Len(disk) :
          disk[k].status = "partial" =>
              /\ disk[k].youtube_video_ids # <<>>
              /\ disk[k].total_parts # None
              /\ Len(disk[k].youtube_video_ids) < disk[k].total_parts[1]
    /\ ReturnedPartial =>
          /\ Rec(tracking, video_id[1]).youtube_video_ids # <<>>
          /\ Len(Rec(tracking, video_id[1]).youtube_video_ids) < Len(segments)

\* C19 (amended): every stored record with status partial has a list of uploaded ids,
\* possibly empty, that is shorter than the number of segments (at most total_parts)
\* that the upload_segments call that made it partial attempted.
C19_PartialIsNotAll ==
    /\ \A k \in 1..Len(disk) :
          disk[k].status = "partial" =>
              /\ disk[k].total_parts # None
              /\ Len(disk[k].youtube_video_ids) < disk[k].total_parts[1]
    /\ ReturnedPartial =>
          Len(Rec(tracking, video_id[1]).youtube_video_ids) < Len(segments)

C19_Witness ==
    /\ ReturnedPartial
    /\ Len(segments) = 2
    /\ Len(failed) = 2
    /\ Rec(disk, video_id[1]).youtube_video_ids = <<>>

\* v is the first record of t, in insertion order, whose status is not completed
FirstOpen(t, v) ==
    \E k \in 1..Len(t) :
        /\ t[k].id = v
        /\ t[k].status # "completed"
        /\ \A j \in 1..(k - 1) : t[j].status = "completed"

\* C20 (as stated): under repeated full cycles, every stored record that is not
\* completed is eventually the one a cycle selects.
C20_NoStarvation ==
    \A v \in VideoIds :
        (v \in Ids(disk) /\ Rec(disk, v).status # "completed") ~> (selected = Some(v))

\* C20 (amended): under repeated full cycles, the first stored record that is not
\* completed is eventually the one a cycle selects, whatever it is: pending, or a
\* record that became partial, downloaded or processed in the cycle before.
C20_FirstIsSelected ==
    \A v \in VideoIds :
        (pc = "idle" /\ FirstOpen(disk, v)) ~> (selected = Some(v))

C20_Witness ==
    /\ cmd = "full"
    /\ pc = "process"
    /\ selected # None
    /\ selected[1] \in Ids(start)
    /\ Rec(start, selected[1]).status = "partial"
    /\ \E k \in 1..Len(start) : start[k].status = "pending"

----------------------------------------------------------------------------
\* C21: whenever download_next_video is about to select, the record it picks is the
\* newest of the records that are not completed (ids grow with the publishing date,
\* as the scraper's newest-first list orders them).
C21_SelectsNewest ==
    (pc = "download" /\ SelectNext(tracking) # None) =>
        \A k \in 1..Len(tracking) :
            tracking[k].status # "completed" => tracking[k].id <= SelectNext(tracking)[1]

----------------------------------------------------------------------------
\* The composition planner of src/modules/editor.py.

\* Bounds of the inputs.
MaxHeight == 1920       \* canvas heights 0..MaxHeight
MaxPct == 110           \* top_video_height_percentage 0.00..MaxPct/100, in hundredths
MaxAspect == 16         \* source and target dimensions 1..MaxAspect of the blur builder

header_h == 180
target_width == 1080

RECURSIVE Pow2(_)
Pow2(n) == IF n = 0 THEN 1 ELSE 2 * Pow2(n - 1)

RECURSIVE Pow2Mod100(_)
Pow2Mod100(e) == IF e = 0 THEN 1 ELSE (2 * Pow2Mod100(e - 1)) % 100

\* top_pct is the double nearest to pct/100.  Its 53-bit mantissa M and its exponent
\* E = 52 + Binade(pct) satisfy 100 * M = pct * 2^E + Rho(pct) with -50 < Rho(pct) < 50:
\* Rho(pct) is 100 * 2^E times the rounding error of the double.
Binade(pct) ==
    CHOOSE c \in 0..7 : pct * Pow2(c) >= 100 /\ (c = 0 \/ pct * Pow2(c - 1) < 100)

Rho(pct) ==
    LET q == (pct * Pow2Mod100(52 + Binade(pct))) % 100
    IN IF q < 50 THEN 0 - q ELSE 100 - q

\* the b with 2^(b-1) < n <= 2^b: the doubles just below n are 2^(b-53) apart
BitsBelow(n) == CHOOSE b \in 0..12 : Pow2(b) >= n /\ (b = 0 \/ Pow2(b - 1) < n)

\* int(a * top_pct) for a >= 0: the double product, rounded to nearest, then truncated.
\* The exact product is a * pct / 100 + a * Rho(pct) / (100 * 2^E).  When a * pct / 100
\* is not an integer it is at least 1/100 away from one and the result is its floor;
\* when it is the integer n and the double is too small (Rho < 0), the product rounds
\* to n only if it is within half a spacing of n, and is truncated to n - 1 otherwise.
TruncatedProduct(a, pct) ==
    IF a = 0 \/ pct = 0 THEN 0
    ELSE LET n == (a * pct) \div 100
         IN IF (a * pct) % 100 # 0 \/ Rho(pct) >= 0 THEN n
            ELSE IF 4 * a * (0 - Rho(pct)) > 100 * Pow2(Binade(pct) + BitsBelow(n))
                 THEN n - 1 ELSE n

\* int(available_h * top_pct): int() truncates towards zero
int_product(available_h, pct) ==
    IF available_h >= 0 THEN TruncatedProduct(available_h, pct)
    ELSE 0 - TruncatedProduct(0 - available_h, pct)

\* (mutation of EnsureEven: the height is left as computed)
EnsureEven_kept(top_h) == top_h

\* if top_h % 2 != 0: top_h -= 1
EnsureEven(top_h) == IF top_h % 2 # 0 THEN top_h - 1 ELSE top_h

\* the region heights of _build_filter_split_screen
SplitLayout(out_h, pct) ==
    LET available_h == out_h - header_h
        top_h == EnsureEven(int_product(available_h, pct))
    IN [available_h |-> available_h, top_h |-> top_h, bottom_h |-> available_h - top_h]

\* One filter of a filter_complex program: its input labels, its output labels, the
\* size it is given (w:h, -2 = keep the aspect ratio, 0 = none), the fit rule of a
\* scale, the vertical offset of a pad, and the position of an overlay.
Step(ins, op, w, h, fit, y, at, outs) ==
    [ins |-> ins, op |-> op, w |-> w, h |-> h, fit |-> fit, y |-> y, at |-> at, outs |-> outs]

\* (mutation of SplitFilter: each region is cropped before it is scaled, and the
\*  header pad is applied to the top region before the stack)
SplitFilter_reordered(out_w, out_h, top_h, bottom_h) ==
    << Step(<<"0:v">>, "hflip", 0, 0, "", 0, "", <<"top.1">>),
       Step(<<"top.1">>, "crop", out_w, top_h, "", 0, "", <<"top.2">>),
       Step(<<"top.2">>, "scale", out_w, top_h, "increase", 0, "", <<"top.3">>),
       Step(<<"top.3">>, "pad", out_w, out_h, "", header_h, "", <<"top">>),
       Step(<<"1:v">>, "crop", out_w, bottom_h, "", 0, "", <<"bottom.1">>),
       Step(<<"bottom.1">>, "scale", out_w, bottom_h, "increase", 0, "", <<"bottom">>),
       Step(<<"top", "bottom">>, "vstack", 0, 0, "", 0, "", <<"padded">>),
       Step(<<"padded", "2:v">>, "overlay", 0, 0, "", 0, "(W-w)/2:0", <<"v_out">>) >>

\* the filter_complex of _build_filter_split_screen: [0:v] is the main video,
\* [1:v] the gameplay, [2:v] the text overlay
SplitFilter(out_w, out_h, top_h, bottom_h) ==
    << Step(<<"0:v">>, "hflip", 0, 0, "", 0, "", <<"top.1">>),
       Step(<<"top.1">>, "scale", out_w, top_h, "increase", 0, "", <<"top.2">>),
       Step(<<"top.2">>, "crop", out_w, top_h, "", 0, "", <<"top">>),
       Step(<<"1:v">>, "scale", out_w, bottom_h, "increase", 0, "", <<"bottom.1">>),
       Step(<<"bottom.1">>, "crop", out_w, bottom_h, "", 0, "", <<"bottom">>),
       Step(<<"top", "bottom">>, "vstack", 0, 0, "", 0, "", <<"stacked">>),
       Step(<<"stacked">>, "pad", out_w, out_h, "", header_h, "", <<"padded">>),
       Step(<<"padded", "2:v">>, "overlay", 0, 0, "", 0, "(W-w)/2:0", <<"v_out">>) >>

build_filter_split_screen(out_w, out_h, pct) ==
    LET l == SplitLayout(out_h, pct)
    IN SplitFilter(out_w, out_h, l.top_h, l.bottom_h)

\* (mutation of Branch: a source of the target's aspect ratio takes the narrow branch)
Branch_merged(in_w, in_h, out_w, out_h) ==
    IF in_w * out_h > out_w * in_h THEN "wide" ELSE "narrow"

\* the branch of _build_filter_with_blur_background.  current_aspect = in_w / in_h and
\* target_aspect = out_w / out_h are correctly rounded quotients of integers, and
\* rounding is monotonic, so they compare as the exact ratios do whenever the ratios
\* differ by more than a rounding step, which they do for dimensions of this size.
Branch(in_w, in_h, out_w, out_h) ==
    IF in_w * out_h > out_w * in_h THEN "wide"
    ELSE IF in_w * out_h < out_w * in_h THEN "narrow"
    ELSE "equal"

\* the filter_complex of each branch: [0:v] is the video, [1:v] the text overlay
BlurFilter(branch, out_w, out_h) ==
    IF branch = "wide" THEN
        << Step(<<"0:v">>, "split", 0, 0, "", 0, "", <<"bg_in", "fg_in">>),
           Step(<<"bg_in">>, "scale", out_w, out_h, "increase", 0, "", <<"bg.1">>),
           Step(<<"bg.1">>, "crop", out_w, out_h, "", 0, "", <<"bg.2">>),
           Step(<<"bg.2">>, "gblur", 0, 0, "", 0, "", <<"bg.3">>),
           Step(<<"bg.3">>, "eq", 0, 0, "", 0, "", <<"bg">>),
           Step(<<"fg_in">>, "scale", out_w, 0 - 2, "", 0, "", <<"fg_scaled">>),
           Step(<<"bg", "fg_scaled">>, "overlay", 0, 0, "", 0, "(W-w)/2:(H-h)/2", <<"video_out">>),
           Step(<<"video_out", "1:v">>, "overlay", 0, 0, "", 0, "(W-w)/2:0", <<"outv">>) >>
    ELSE IF branch = "narrow" THEN
        << Step(<<"0:v">>, "scale", out_w, 0 - 2, "", 0, "", <<"scaled.1">>),
           Step(<<"scaled.1">>, "crop", out_w, out_h, "", 0, "", <<"scaled">>),
           Step(<<"scaled", "1:v">>, "overlay", 0, 0, "", 0, "(W-w)/2:0", <<"outv">>) >>
    ELSE
        << Step(<<"0:v">>, "scale", out_w, out_h, "", 0, "", <<"scaled">>),
           Step(<<"scaled", "1:v">>, "overlay", 0, 0, "", 0, "(W-w)/2:0", <<"outv">>) >>

build_filter_with_blur_background(in_w, in_h, out_w, out_h) ==
    BlurFilter(Branch(in_w, in_h, out_w, out_h), out_w, out_h)

\* add_overlays in split-screen mode (split_screen.enabled and a gameplay clip found):
\* the command is built from the split program and maps [v_out]
add_overlays_split ==
    /\ editor.mode = "none"
    /\ \E out_h \in 0..MaxHeight, pct \in 0..MaxPct :
          LET filter == build_filter_split_screen(target_width, out_h, pct)
          IN editor' = [mode |-> "split", in_w |-> 0, in_h |-> 0,
                        out_w |-> target_width, out_h |-> out_h, top_pct |-> pct,
                        top_h |-> filter[2].h, bottom_h |-> filter[4].h,
                        branch |-> "none", filter |-> filter,
                        overlay_in |-> "2:v", map |-> "v_out"]
    /\ UNCHANGED <<produced, pc, cmd, tracking, disk, intact, channel, clock, files, edited, video_id,
                   segments, i, uploaded_ids, failed, scan, selected, start, calls, cut,
                   outcomes, delays>>

\* add_overlays in blur-background mode: the command is built from the blur program
\* of the probed source size and maps [outv]
add_overlays_blur ==
    /\ editor.mode = "none"
    /\ \E in_w \in 1..MaxAspect, in_h \in 1..MaxAspect,
          out_w \in 1..MaxAspect, out_h \in 1..MaxAspect :
          editor' = [mode |-> "blur", in_w |-> in_w, in_h |-> in_h,
                     out_w |-> out_w, out_h |-> out_h, top_pct |-> 0,
                     top_h |-> 0, bottom_h |-> 0,
                     branch |-> Branch(in_w, in_h, out_w, out_h),
                     filter |-> build_filter_with_blur_background(in_w, in_h, out_w, out_h),
                     overlay_in |-> "1:v", map |-> "outv"]
    /\ UNCHANGED <<produced, pc, cmd, tracking, disk, intact, channel, clock, files, edited, video_id,
                   segments, i, uploaded_ids, failed, scan, selected, start, calls, cut,
                   outcomes, delays>>

\* add_overlays returns: the command and its program are gone
add_overlays_return ==
    /\ editor.mode # "none"
    /\ editor' = NoPlan
    /\ UNCHANGED <<produced, pc, cmd, tracking, disk, intact, channel, clock, files, edited, video_id,
                   segments, i, uploaded_ids, failed, scan, selected, start, calls, cut,
                   outcomes, delays>>

EditorNext ==
    \/ add_overlays_split
    \/ add_overlays_blur
    \/ add_overlays_return

EditorSpec == Init /\ [][EditorNext]_vars

\* ---- vocabulary of the layout properties ----

SplitPlanned == editor.mode = "split"

BlurPlanned == editor.mode = "blur"

\* floor(available * f) for the fraction f = pct / 100
FloorOfProduct(available, pct) == (available * pct) \div 100

\* n rounded down to the nearest even integer
RoundDownToEven(n) == 2 * (n \div 2)

\* C22: in split mode, for every canvas height of at least the header and every top
\* fraction strictly between 0 and 1, available = H - 180, topH is floor(available * f)
\* rounded down to the nearest even integer, bottomH = available - topH, the three
\* heights add up to H, and canvas height 1920 with f = 0.70 gives 1218 and 522.
C22_SplitLayout ==
    (SplitPlanned /\ editor.out_h >= header_h /\ editor.top_pct \in 1..99) =>
        LET available == editor.out_h - 180
        IN /\ editor.top_h = RoundDownToEven(FloorOfProduct(available, editor.top_pct))
           /\ editor.bottom_h = available - editor.top_h
           /\ 180 + editor.top_h + editor.bottom_h = editor.out_h
           /\ (editor.out_h = 1920 /\ editor.top_pct = 70) =>
                  (available = 1740 /\ editor.top_h = 1218 /\ editor.bottom_h = 522)

\* the three heights of a split plan add up to the canvas height
SplitSum == SplitPlanned => header_h + editor.top_h + editor.bottom_h = editor.out_h

Even(n) == n % 2 = 0

\* C23 (as stated): in every split plan, for every canvas height and every top
\* fraction, the top-region height and the bottom-region height are both even.
C23_BothEven ==
    SplitPlanned => (Even(editor.top_h) /\ Even(editor.bottom_h))

\* C23 (amended): in every split plan the top-region height is even, and the
\* bottom-region height is even exactly when the canvas height is even.
C23_TopEvenBottomAsCanvas ==
    SplitPlanned =>
        /\ Even(editor.top_h)
        /\ Even(editor.bottom_h) <=> Even(editor.out_h)

\* a plan on an even canvas whose truncated product was odd and was lowered by one
C23_Witness ==
    /\ SplitPlanned
    /\ Even(editor.out_h)
    /\ editor.out_h > header_h
    /\ ~Even(FloorOfProduct(editor.out_h - header_h, editor.top_pct))
    /\ editor.top_h = FloorOfProduct(editor.out_h - header_h, editor.top_pct) - 1
    /\ Even(editor.bottom_h)

\* C24: no split program is produced with a negative region height: a canvas height
\* and top fraction that would make the top or the bottom region negative are
\* rejected, so every program that is produced has both heights at least 0.
C24_NoNegativeRegion ==
    SplitPlanned => (editor.top_h >= 0 /\ editor.bottom_h >= 0)

\* ---- vocabulary of the program properties ----

Ops(filter) == {filter[k].op : k \in 1..Len(filter)}

\* the filter at position k is op with the size w:h
IsStep(filter, k, op, w, h) ==
    k \in 1..Len(filter) /\ filter[k].op = op /\ filter[k].w = w /\ filter[k].h = h

\* the source is wider / narrower than the target, as exact ratios
Wider(p) == p.in_w * p.out_h > p.out_w * p.in_h

Narrower(p) == p.in_w * p.out_h < p.out_w * p.in_h

PlanOf(in_w, in_h, out_w, out_h) ==
    BlurPlanned /\ editor.in_w = in_w /\ editor.in_h = in_h
                /\ editor.out_w = out_w /\ editor.out_h = out_h

\* the wide branch builds a blurred background of the target size and lays the
\* foreground, scaled to the target width, on its centre
WideProgram(p) ==
    /\ \E k \in 1..Len(p.filter) : IsStep(p.filter, k, "scale", p.out_w, p.out_h)
                                   /\ p.filter[k].fit = "increase"
    /\ \E k \in 1..Len(p.filter) : IsStep(p.filter, k, "crop", p.out_w, p.out_h)
    /\ "gblur" \in Ops(p.filter)
    /\ \E k \in 1..Len(p.filter) : IsStep(p.filter, k, "scale", p.out_w, 0 - 2)
    /\ \E k \in 1..Len(p.filter) : p.filter[k].op = "overlay" /\ p.filter[k].at = "(W-w)/2:(H-h)/2"

\* the narrow branch scales to the target width and crops to the target height
NarrowProgram(p) ==
    /\ IsStep(p.filter, 1, "scale", p.out_w, 0 - 2)
    /\ IsStep(p.filter, 2, "crop", p.out_w, p.out_h)
    /\ "gblur" \notin Ops(p.filter)

\* the equal branch scales to the target size and has no crop step
EqualProgram(p) ==
    /\ IsStep(p.filter, 1, "scale", p.out_w, p.out_h)
    /\ "crop" \notin Ops(p.filter)
    /\ "gblur" \notin Ops(p.filter)

\* exactly one branch, chosen by the comparison of the two ratios, with its program
BranchesAsStated ==
    BlurPlanned =>
        /\ editor.branch \in {"wide", "narrow", "equal"}
        /\ editor.branch = "wide" <=> Wider(editor)
        /\ editor.branch = "narrow" <=> Narrower(editor)
        /\ editor.branch = "wide" => WideProgram(editor)
        /\ editor.branch = "narrow" => NarrowProgram(editor)
        /\ editor.branch = "equal" => EqualProgram(editor)

\* C25 (as stated): the blur branch is a total function of the two aspect ratios:
\* exactly one of wide (source ratio above the target's), narrow (below) and equal is
\* chosen, each with its program; 16:9 against 9:16 is wide, 9:16 against 9:16 is
\* equal, and 4:5 against 9:16 is narrow.
C25_BranchTotal ==
    /\ BranchesAsStated
    /\ PlanOf(16, 9, 9, 16) => editor.branch = "wide"
    /\ PlanOf(9, 16, 9, 16) => editor.branch = "equal"
    /\ PlanOf(4, 5, 9, 16) => editor.branch = "narrow"

\* C25 (amended): as stated, except that 4:5 against 9:16 is wide (4/5 > 9/16);
\* 1:2 against 9:16 is narrow.
C25_BranchTotalAmended ==
    /\ BranchesAsStated
    /\ PlanOf(16, 9, 9, 16) => editor.branch = "wide"
    /\ PlanOf(9, 16, 9, 16) => editor.branch = "equal"
    /\ PlanOf(4, 5, 9, 16) => editor.branch = "wide"
    /\ PlanOf(1, 2, 9, 16) => editor.branch = "narrow"

\* the plan of a source in the target's ratio but not of its size: the equal branch
C25_Witness ==
    /\ BlurPlanned
    /\ editor.in_w = 2 * editor.out_w
    /\ editor.in_h = 2 * editor.out_h
    /\ editor.branch = "equal"
    /\ EqualProgram(editor)

\* the position of the filter that produces the stream, 0 for an input of the command
Producer(filter, label) ==
    IF \E k \in 1..Len(filter) : \E o \in 1..Len(filter[k].outs) : filter[k].outs[o] = label
    THEN CHOOSE k \in 1..Len(filter) : \E o \in 1..Len(filter[k].outs) : filter[k].outs[o] = label
    ELSE 0

\* the first row of the stream that holds video content: row 0 of an input; a pad
\* moves it down by its offset; a stack starts with its first input; an overlay
\* keeps its base layer (the layer laid over it is the text, or lies within the base)
RECURSIVE FirstContentRow(_, _)
FirstContentRow(filter, label) ==
    LET k == Producer(filter, label)
    IN IF k = 0 THEN 0
       ELSE (IF filter[k].op = "pad" THEN filter[k].y ELSE 0)
            + FirstContentRow(filter, filter[k].ins[1])

\* C26: in split mode and in blur-background mode no source or filler video content
\* is placed in the header strip, rows 0 to the header height of the composed frame.
C26_HeaderReserved ==
    editor.mode # "none" => FirstContentRow(editor.filter, editor.map) >= header_h

SplitHeaderReserved ==
    SplitPlanned => FirstContentRow(editor.filter, editor.map) = header_h

\* the positions of the filters the stream was made by, from an input of the command
\* up to the filter that produces it
RECURSIVE Lineage(_, _)
Lineage(filter, label) ==
    LET k == Producer(filter, label)
    IN IF k = 0 THEN {}
       ELSE {k} \cup UNION {Lineage(filter, filter[k].ins[n]) : n \in 1..Len(filter[k].ins)}

\* along every stream each scale step comes before each crop step: what a crop step
\* is given has been scaled, and what a scale step is given has not been cropped
ScaleBeforeCrop(filter) ==
    \A k \in 1..Len(filter) :
        LET before == Lineage(filter, filter[k].ins[1])
        IN /\ filter[k].op = "crop" =>
                  \E s \in before : filter[s].op = "scale" /\ s < k
           /\ filter[k].op = "scale" =>
                  \A c \in before : filter[c].op # "crop"

\* every pad step is applied to a stream that has been stacked
PadAfterStack(filter) ==
    \A p \in 1..Len(filter) :
        filter[p].op = "pad" =>
            \E v \in Lineage(filter, filter[p].ins[1]) : filter[v].op = "vstack" /\ v < p

\* the last step lays the text over the composed video and produces the one stream
\* the command maps, which no other step produces
TextOverlayLast(p) ==
    LET last == p.filter[Len(p.filter)]
    IN /\ last.op = "overlay"
       /\ last.ins[2] = p.overlay_in
       /\ last.outs = <<p.map>>
       /\ \A k \in 1..(Len(p.filter) - 1) :
             /\ \A o \in 1..Len(p.filter[k].outs) : p.filter[k].outs[o] # p.map
             /\ \A n \in 1..Len(p.filter[k].ins) : p.filter[k].ins[n] # p.overlay_in

\* C27: in every program the builder produces (split mode and each blur branch), for
\* each stream every scale step precedes every crop step, in split mode the header
\* pad step comes after the stack step, and the text-overlay step is the last step
\* and the one that produces the single named video output.
C27_StepOrder ==
    editor.mode # "none" =>
        /\ ScaleBeforeCrop(editor.filter)
        /\ SplitPlanned => ("pad" \in Ops(editor.filter) /\ PadAfterStack(editor.filter))
        /\ TextOverlayLast(editor)

\* a split program, which has scale, crop, stack, pad and text overlay steps
C27_Witness ==
    /\ SplitPlanned
    /\ {"scale", "crop", "vstack", "pad", "overlay"} \subseteq Ops(editor.filter)
    /\ editor.out_h = 1920
    /\ editor.top_pct = 70

\* a wide blur program, whose two streams are scaled and only one is cropped
C27_WitnessBlur ==
    /\ BlurPlanned
    /\ editor.branch = "wide"
    /\ Len(editor.filter) = 8

----------------------------------------------------------------------------
\* status, total_parts, uploaded ids and timestamps of r are those of q
SameStage(r, q) == SameProgress(r, q) /\ r.total_parts = q.total_parts

\* a record as discovery inserts it
Fresh(r) ==
    /\ r.status = "pending"
    /\ r.total_parts = None
    /\ r.youtube_video_ids = <<>>
    /\ r.parts_uploaded = <<>>
    /\ r.downloaded_at = None
    /\ r.last_upload = None

\* every record of t other than the selected one is as it was at the start of the
\* run, or is a record discovery has just inserted
OthersUntouched(t) ==
    \A k \in 1..Len(t) :
        (selected = None \/ t[k].id # selected[1]) =>
            IF t[k].id \in Ids(start) THEN SameStage(t[k], Rec(start, t[k].id))
            ELSE Fresh(t[k])

\* C28: one run of run_full_automation carries at most one video through the stages:
\* the Downloader is called at most once, and apart from the records discovery
\* inserts and the refresh of views and published, only the selected record has its
\* status, total_parts, uploaded ids or timestamps changed, in memory and in the store.
C28_OneVideoPerCycle ==
    (cmd = "full" /\ pc # "idle") =>
        /\ calls.download <= 1
        /\ OthersUntouched(tracking)
        /\ OthersUntouched(disk)

\* a full cycle over two unfinished records has carried the selected one to the end
\* of the publish stage
C28_Witness ==
    /\ cmd = "full"
    /\ pc = "done"
    /\ calls.download = 1
    /\ calls.upload >= 1
    /\ selected # None
    /\ Len(tracking) = 2
    /\ \E k \in 1..2 : tracking[k].id # selected[1] /\ tracking[k].status # "completed"
    /\ selected[1] \in Ids(start)
    /\ ~SameStage(Rec(tracking, selected[1]), Rec(start, selected[1]))

\* the parts of video v whose accepted uploads the store lists
PartsListed(t, v) ==
    IF v \in Ids(t)
    THEN {Rec(t, v).youtube_video_ids[k][3] : k \in 1..Len(Rec(t, v).youtube_video_ids)}
    ELSE {}

\* this step is an upload of part p that the platform accepts
UploadAccepted(p) ==
    /\ pc = "upload_loop"
    /\ i < Len(segments)
    /\ segments[i + 1] = p
    /\ Len(uploaded_ids') = Len(uploaded_ids) + 1

\* C29: at most once publishing across runs: over any sequence of commands, the
\* retry of a partial record included, no part of a video is uploaded and accepted
\* while the store lists an accepted upload of that part from an earlier call.
C29_AtMostOncePublished ==
    [][\A p \in 1..max_segments :
          (cmd = "full" /\ UploadAccepted(p)) => p \notin PartsListed(disk, video_id[1])]_vars

----------------------------------------------------------------------------
\* Repeated full cycles in which no collaborator call fails for ever.

\* the Downloader gives a path
DownloadOk == download_next_video /\ pc' = "process"

\* the Splitter gives at least max_segments segments and every transcode succeeds
ProcessOk == process_video /\ cut'.n >= max_segments /\ cut'.ok = cut'.tried

\* the upload of part p is accepted
UploadOk(p) == upload_short /\ UploadAccepted(p)

\* full cycles over the records of a channel that publishes nothing new
RetryNext ==
    \/ StartFullAgain
    \/ scrape_channel
    \/ download_none
    \/ download_next_video
    \/ process_video
    \/ upload_segments
    \/ upload_short
    \/ upload_finish
    \/ Exit

\* The cycles never stop, and every call that is made again and again succeeds again
\* and again: the download, the split with all its transcodes, the upload of each part.
RetrySpec ==
    /\ Init
    /\ [][RetryNext]_vars
    /\ WF_vars(RetryNext)
    /\ SF_vars(DownloadOk)
    /\ SF_vars(ProcessOk)
    /\ \A p \in 1..max_segments : SF_vars(UploadOk(p))

\* C30: under repeated full cycles in which every collaborator call that is retried
\* again and again eventually succeeds, every stored record eventually has status
\* completed and keeps it.
C30_EventuallyCompleted ==
    \A v \in VideoIds :
        (v \in Ids(disk)) ~> [](v \in Ids(disk) /\ Rec(disk, v).status = "completed")

----------------------------------------------------------------------------
\* the upload-pending command has rebuilt the segment list of a processed record and
\* is about to publish it
PendingTaken == cmd = "upload" /\ pc = "upload" /\ video_id # None

\* C31: for a record left in status processed, the segment list the upload-pending
\* command rebuilds from the part numbers 1..total_parts is the list of edited
\* segments process_video returned for it, whatever transcodes failed.
C31_RebuildsProduced ==
    PendingTaken => segments = produced[video_id[1]]

\* process_video's list is always found again when no transcode failed before a
\* later success: the returned parts are 1..total_parts
C31_RebuildsGapless ==
    (PendingTaken /\ produced[video_id[1]] = [k \in 1..Len(produced[video_id[1]]) |-> k]) =>
        segments = produced[video_id[1]]

====
